---- MODULE Spec2Model ----
(***************************************************************************)
(* Capability introspection and strict schema compilation of the INTERSECT *)
(* SDK: src/src/intersect_sdk/_internal/schema.py (get_schemas_and_        *)
(* functions, _status_fn_schema, _merge_schema_definitions and the         *)
(* GenerateTypedJsonSchema overrides) and the annotations of               *)
(* src/src/intersect_sdk/annotations.py.                                   *)
(*                                                                         *)
(* A run of the model is one call of get_schemas_and_functions on one      *)
(* capability class: one step per iteration of the loop over the entry     *)
(* points, one step for the check that follows the loop, one step for      *)
(* _status_fn_schema and the return.                                       *)
(*                                                                         *)
(* A second specification, AnnotateSpec, starts one step earlier: a def    *)
(* is handed to intersect_message or intersect_status, the callable that   *)
(* comes back is called, and the class that holds it is introspected.      *)
(***************************************************************************)
EXTENDS Naturals, Sequences, FiniteSets, TLC

VARIABLES capability, pc, idx, function_map, schemas, channels, log, examined, result,
          func, decorator, wrapper, invoked

vars == <<capability, pc, idx, function_map, schemas, channels, log, examined, result,
          func, decorator, wrapper, invoked>>

\* the variables of the annotation step
annotated == <<func, decorator, wrapper, invoked>>

(***************************************************************************)
(* Bounds of the model.                                                    *)
(***************************************************************************)
\* nesting depth of the type descriptors drawn for the annotations
MaxDepth == 1
\* number of attribute names a capability class of the model may define
MaxMethods == 3

(***************************************************************************)
(* Type descriptors (the annotations of parameters and return slots).      *)
(* A descriptor is a record [tag, name, args]: tag is the shape, name the  *)
(* __name__ of a named type, args the sub-descriptors.                     *)
(***************************************************************************)
T(tag, name, args) == [tag |-> tag, name |-> name, args |-> args]

\* inspect.Signature.empty: the slot carries no annotation
Empty == T("empty", "", <<>>)
\* the annotation None
NoneType == T("None", "", <<>>)
Int == T("int", "", <<>>)
Str == T("str", "", <<>>)
AnyType == T("Any", "", <<>>)
Object == T("object", "", <<>>)

\* __name__ of the named types, by nesting level (level 0 is a leaf)
NameAt(kind, d) ==
    CASE kind = "BaseModel"     -> <<"Model0", "Model1", "Model2", "Model3">>[d + 1]
      [] kind = "dataclass"     -> <<"Data0", "Data1", "Data2", "Data3">>[d + 1]
      [] kind = "TypedDict"     -> <<"TDict0", "TDict1", "TDict2", "TDict3">>[d + 1]
      [] kind = "NamedTuple"    -> <<"NTuple0", "NTuple1", "NTuple2", "NTuple3">>[d + 1]
      [] kind = "TypeAliasType" -> <<"Alias0", "Alias1", "Alias2", "Alias3">>[d + 1]
      [] kind = "Enum"          -> <<"Color", "Color", "Color", "Color">>[d + 1]

RecordKinds == {"BaseModel", "dataclass", "TypedDict", "NamedTuple"}

Leaves == {Int, AnyType, Object, T("Enum", NameAt("Enum", 0), <<>>), T("Literal", "", <<>>),
           T("class", "Inner", <<>>)}

\* set and frozenset elements are hashable: leaves
HashableLeaves == {Int, AnyType, Object}

RECURSIVE TypesUpTo(_)
TypesUpTo(d) ==
    IF d = 0 THEN Leaves
    ELSE LET S == TypesUpTo(d - 1) IN
         S
         \cup {T("List", "", <<t>>) : t \in S}
         \cup {T("Generator", "", <<t>>) : t \in S}
         \cup {T("TupleVar", "", <<t>>) : t \in S}
         \cup {T(k, "", <<t>>) : k \in {"Set", "FrozenSet"}, t \in HashableLeaves}
         \cup {T("Dict", "", <<k, t>>) : k \in {Str, Int, AnyType}, t \in S}
         \cup {T("Tuple", "", <<>>)}
         \cup {T("Tuple", "", <<t>>) : t \in S}
         \cup {T("Tuple", "", <<Int, t>>) : t \in S}
         \cup {T(k, NameAt(k, d), <<>>) : k \in RecordKinds}
         \cup {T(k, NameAt(k, d), <<t>>) : k \in RecordKinds, t \in S}
         \cup {T("TypeAliasType", NameAt("TypeAliasType", d), <<t>>) : t \in S}

Types == TypesUpTo(MaxDepth)

(***************************************************************************)
(* Messages are sequences of text tokens (the pieces of the f-strings);    *)
(* a message contains a fragment when one of its tokens is that fragment.  *)
(***************************************************************************)
Contains(text, fragment) == \E i \in DOMAIN text : text[i] = fragment

\* the types str() shows as "<class '...'>"
is_class(t) ==
    t.tag \in {"int", "str", "object", "class", "Enum",
               "BaseModel", "dataclass", "TypedDict", "NamedTuple"}

\* the typing name of a generic alias
generic_name(t) ==
    CASE t.tag = "TupleVar" -> "Tuple"
      [] OTHER -> t.tag

RECURSIVE type_repr(_), repr_args(_)
\* the arguments of a generic alias, separated by commas
repr_args(args) ==
    IF args = <<>> THEN <<>>
    ELSE IF Len(args) = 1 THEN type_repr(args[1])
    ELSE type_repr(args[1]) \o <<", ">> \o repr_args(Tail(args))

\* typing._type_repr: a class shows its (qualified) name, a generic alias
\* its typing name and the repr of its arguments; fields are not shown
type_repr(t) ==
    CASE t.tag \in {"int", "str", "object"} -> <<t.tag>>
      [] t.tag = "None" -> <<"NoneType">>
      [] t.tag = "Any" -> <<"typing.Any">>
      [] t.tag = "Literal" -> <<"typing.Literal[...]">>
      [] t.tag = "TypeAliasType" -> <<t.name>>
      [] t.tag = "Field" ->
            <<"typing.Annotated[">> \o repr_args(t.args) \o <<", FieldInfo(default=...)]">>
      [] is_class(t) -> <<t.name>>
      [] t.tag = "TupleVar" -> <<"typing.Tuple[">> \o repr_args(t.args) \o <<", ...]">>
      [] t.tag = "Tuple" /\ t.args = <<>> -> <<"typing.Tuple[()]">>
      [] t.tag = "Generator" ->
            <<"typing.Generator[">> \o repr_args(t.args) \o <<", NoneType, NoneType]">>
      [] OTHER -> <<"typing.", generic_name(t), "[">> \o repr_args(t.args) \o <<"]">>

\* f"{annotation}": the text of an annotation inside a message
Repr(t) ==
    IF t.tag = "None" THEN <<"None">>
    ELSE IF is_class(t) THEN <<"<class '">> \o type_repr(t) \o <<"'>">>
    ELSE type_repr(t)

(***************************************************************************)
(* JSON schema fragments: [type, title, marker, ref, properties, items,    *)
(* additional, default]. marker is "enum" or "const" when the fragment     *)
(* carries that key; ref is the '$ref' string, empty when the fragment is  *)
(* no reference; default is the 'default' key, empty when there is none.   *)
(***************************************************************************)
NoFrag == [type |-> "", title |-> "", marker |-> "", ref |-> <<>>,
           properties |-> <<>>, items |-> <<>>, additional |-> <<>>, default |-> <<>>]

\* ref_template='#/components/schemas/{model}'
RefTemplate(model) == <<"#/components/schemas/", model>>

RefTo(name) == [NoFrag EXCEPT !.ref = RefTemplate(name)]

IsRef(frag) == frag.ref # <<>>

\* an empty dict, the '$defs' of a schema without definitions
NoDefs == <<>>

\* dict.update: the entries of new replace those of old
Update(old, new) == new @@ old

\* result of a schema generation: a fragment and its definitions, or the
\* PydanticUserError that was raised
Ok(frag, defs) == [ok |-> TRUE, cause |-> <<>>, schema |-> frag, defs |-> defs]
Raise(cause) == [ok |-> FALSE, cause |-> cause, schema |-> NoFrag, defs |-> NoDefs]

\* handle_invalid_for_json_schema raises PydanticInvalidForJsonSchema
handle_invalid_for_json_schema(error_info) ==
    Raise(<<"Cannot generate a JsonSchema for ">> \o error_info)

(***************************************************************************)
(* The core schema pydantic builds for a descriptor, as far as the         *)
(* overrides read it.                                                      *)
(***************************************************************************)
\* schema['type'] of the core schema
core_type(t) ==
    CASE t.tag \in {"Any", "object"} -> "any"
      [] t.tag = "List" -> "list"
      [] t.tag = "Dict" -> "dict"
      [] t.tag \in {"Tuple", "TupleVar"} -> "tuple"
      [] OTHER -> t.tag

\* schema.get('items_schema') / schema.get('keys_schema'): the sub-schema of
\* an argument; typing.Any as the argument of list, set, frozenset or dict
\* leaves the key out of the core schema
sub_schema(t, i) ==
    IF /\ t.tag \in {"List", "Set", "FrozenSet", "Dict"}
       /\ t.args[i] = AnyType
    THEN <<>> ELSE <<t.args[i]>>

RECURSIVE unparsable(_)
\* TypeAdapter(annotation) cannot build a core schema for an arbitrary class
unparsable(t) ==
    \/ t.tag = "class"
    \/ \E i \in DOMAIN t.args : unparsable(t.args[i])

(***************************************************************************)
(* GenerateTypedJsonSchema: the overrides of schema.py and the pydantic    *)
(* generation they defer to.                                               *)
(***************************************************************************)
\* faulty variant of any_schema: pydantic's own any_schema, an empty schema
any_schema_permissive == Ok(NoFrag, NoDefs)

any_schema ==
    handle_invalid_for_json_schema(
        <<"Any or object : ", "dynamic typing is not allowed", " for INTERSECT schemas">>)

RECURSIVE generate_inner(_), generate_all(_)

\* the fragments of a sequence of sub-schemas, in order; the first error is raised
generate_all(ts) ==
    IF ts = <<>> THEN [ok |-> TRUE, cause |-> <<>>, frags |-> <<>>, defs |-> NoDefs]
    ELSE LET head == generate_inner(Head(ts)) IN
         IF ~head.ok THEN [ok |-> FALSE, cause |-> head.cause, frags |-> <<>>, defs |-> NoDefs]
         ELSE LET rest == generate_all(Tail(ts)) IN
              IF ~rest.ok THEN rest
              ELSE [ok |-> TRUE, cause |-> <<>>, frags |-> <<head.schema>> \o rest.frags,
                    defs |-> Update(head.defs, rest.defs)]

\* an array fragment over one element schema (list, set, frozenset, generator,
\* variable tuple as pydantic generates them)
array_of(items_schema) ==
    LET sub == generate_all(items_schema) IN
    IF ~sub.ok THEN Raise(sub.cause)
    ELSE Ok([NoFrag EXCEPT !.type = "array", !.items = sub.frags], sub.defs)

list_schema(t) ==
    IF sub_schema(t, 1) = <<>>
    THEN handle_invalid_for_json_schema(<<"list subtyping may not be dynamic in INTERSECT">>)
    ELSE array_of(sub_schema(t, 1))

set_schema(t) ==
    IF sub_schema(t, 1) = <<>>
    THEN handle_invalid_for_json_schema(<<"set subtyping may not be dynamic in INTERSECT">>)
    ELSE array_of(sub_schema(t, 1))

frozenset_schema(t) ==
    IF sub_schema(t, 1) = <<>>
    THEN handle_invalid_for_json_schema(<<"frozenset subtyping may not be dynamic in INTERSECT">>)
    ELSE array_of(sub_schema(t, 1))

generator_schema(t) ==
    IF sub_schema(t, 1) = <<>>
    THEN handle_invalid_for_json_schema(
             <<"generator yield subtyping (first argument) may not be dynamic in INTERSECT">>)
    ELSE LET json_schema == array_of(sub_schema(t, 1)) IN
         IF json_schema.ok /\ json_schema.schema.items = <<>>
         THEN handle_invalid_for_json_schema(
                  <<"generator yield subtyping (first argument) may not be dynamic in INTERSECT">>)
         ELSE json_schema

tuple_positional_schema(t) ==
    LET sub == generate_all(t.args) IN
    IF ~sub.ok THEN Raise(sub.cause)
    ELSE IF sub.frags = <<>>
    THEN handle_invalid_for_json_schema(
             <<"tuple: () is not a permitted tuple argument for INTERSECT">>)
    ELSE Ok([NoFrag EXCEPT !.type = "array", !.items = sub.frags], sub.defs)

tuple_variable_schema(t) ==
    LET json_schema == array_of(t.args) IN
    IF json_schema.ok /\ json_schema.schema.items = <<>>
    THEN handle_invalid_for_json_schema(<<"empty tuple typing for INTERSECT">>)
    ELSE json_schema

\* faulty variant of dict_schema: the value type is checked before the key type
dict_schema_value_first(t) ==
    IF sub_schema(t, 2) = <<>>
    THEN handle_invalid_for_json_schema(
             <<"dict or mapping ", "value type cannot be Any/object", " for INTERSECT">>)
    ELSE IF sub_schema(t, 1) = <<>> \/ core_type(sub_schema(t, 1)[1]) # "str"
    THEN handle_invalid_for_json_schema(
             <<"dict or mapping ", "key type needs to be 'str'", " for INTERSECT">>)
    ELSE LET sub == generate_all(sub_schema(t, 2)) IN
         IF ~sub.ok THEN Raise(sub.cause)
         ELSE Ok([NoFrag EXCEPT !.type = "object", !.additional = sub.frags], sub.defs)

dict_schema(t) ==
    LET keys_schema == sub_schema(t, 1) IN
    IF keys_schema = <<>> \/ core_type(keys_schema[1]) # "str"
    THEN handle_invalid_for_json_schema(
             <<"dict or mapping ", "key type needs to be 'str'", " for INTERSECT">>)
    ELSE LET sub == generate_all(sub_schema(t, 2)) IN
         IF ~sub.ok THEN Raise(sub.cause)
         ELSE IF sub.frags = <<>>
         THEN handle_invalid_for_json_schema(
                  <<"dict or mapping ", "value type cannot be Any/object", " for INTERSECT">>)
         ELSE Ok([NoFrag EXCEPT !.type = "object", !.additional = sub.frags], sub.defs)

\* an object fragment with one property per field, filed under the type's
\* name in the definitions and referred to by name
object_of(t, if_empty) ==
    LET sub == generate_all(t.args) IN
    IF ~sub.ok THEN Raise(sub.cause)
    ELSE IF sub.frags = <<>> THEN handle_invalid_for_json_schema(if_empty)
    ELSE Ok(RefTo(t.name),
            Update(sub.defs,
                   t.name :> [NoFrag EXCEPT !.type = "object", !.title = t.name,
                                            !.properties = sub.frags]))

\* faulty variant of typed_dict_schema: pydantic's own, a TypedDict without fields passes
typed_dict_schema_permissive(t) ==
    IF t.args = <<>>
    THEN Ok(RefTo(t.name), t.name :> [NoFrag EXCEPT !.type = "object", !.title = t.name])
    ELSE object_of(t, <<"TypedDict", " (empty TypedDict not allowed in INTERSECT)">>)

typed_dict_schema(t) ==
    object_of(t, <<"TypedDict", " (empty TypedDict not allowed in INTERSECT)">>)

model_schema(t) ==
    object_of(t, <<"pydantic.BaseModel", " \"", t.name, "\" ",
                   "(needs at least one property for INTERSECT)">>)

dataclass_schema(t) ==
    object_of(t, <<"dataclass", " \"", t.name, "\" ",
                   "(needs at least one property for INTERSECT)">>)

\* the arguments schema of a NamedTuple
p_arguments_schema(t) ==
    IF t.args = <<>>
    THEN handle_invalid_for_json_schema(
             <<"core_schema.ArgumentsSchema (", "missing arguments, needed for INTERSECT",
               " - are you using a ", "NamedTuple", " class with no properties?)">>)
    ELSE LET sub == generate_all(t.args) IN
         IF ~sub.ok THEN Raise(sub.cause)
         ELSE Ok([NoFrag EXCEPT !.type = "array", !.items = sub.frags], sub.defs)

\* pydantic files enumerations and type aliases under their name
enum_schema(t) ==
    Ok(RefTo(t.name),
       t.name :> [NoFrag EXCEPT !.type = "string", !.title = t.name, !.marker = "enum"])

\* Annotated[t, Field(default=v)] and a record field "x: t = v": pydantic's
\* default_schema, which the generator does not override. The default is
\* not validated against t; it is put under 'default' when it can be
\* serialized and left out, with a warning of pydantic, when it cannot.
\* t.name tells which default it is: "valid", "mismatch", "unserializable".
default_schema(t) ==
    LET sub == generate_inner(t.args[1]) IN
    IF ~sub.ok THEN sub
    ELSE IF t.name = "unserializable" THEN sub
    ELSE Ok([sub.schema EXCEPT !.default = <<t.name>>], sub.defs)

alias_schema(t) ==
    LET sub == generate_inner(t.args[1]) IN
    IF ~sub.ok THEN sub
    ELSE Ok(RefTo(t.name), Update(sub.defs, t.name :> sub.schema))

generate_inner(t) ==
    CASE t.tag \in {"Any", "object"} -> any_schema
      [] t.tag = "int" -> Ok([NoFrag EXCEPT !.type = "integer"], NoDefs)
      [] t.tag = "str" -> Ok([NoFrag EXCEPT !.type = "string"], NoDefs)
      [] t.tag = "None" -> Ok([NoFrag EXCEPT !.type = "null"], NoDefs)
      [] t.tag = "Literal" -> Ok([NoFrag EXCEPT !.marker = "const"], NoDefs)
      [] t.tag = "Enum" -> enum_schema(t)
      [] t.tag = "List" -> list_schema(t)
      [] t.tag = "Set" -> set_schema(t)
      [] t.tag = "FrozenSet" -> frozenset_schema(t)
      [] t.tag = "Generator" -> generator_schema(t)
      [] t.tag = "Tuple" -> tuple_positional_schema(t)
      [] t.tag = "TupleVar" -> tuple_variable_schema(t)
      [] t.tag = "Dict" -> dict_schema(t)
      [] t.tag = "TypedDict" -> typed_dict_schema(t)
      [] t.tag = "BaseModel" -> model_schema(t)
      [] t.tag = "dataclass" -> dataclass_schema(t)
      [] t.tag = "NamedTuple" -> p_arguments_schema(t)
      [] t.tag = "TypeAliasType" -> alias_schema(t)
      [] t.tag = "Field" -> default_schema(t)

\* TypeAdapter(annotation): raises for a type pydantic cannot parse
TypeAdapter(annotation) ==
    IF unparsable(annotation)
    THEN Raise(<<"Unable to generate pydantic-core schema for ">> \o Repr(annotation))
    ELSE Ok(NoFrag, NoDefs)

\* a definition the root alone refers to is inlined as the root schema
inline_root(r) ==
    IF r.ok /\ IsRef(r.schema)
    THEN Ok(r.defs[r.schema.ref[2]],
            [n \in DOMAIN r.defs \ {r.schema.ref[2]} |-> r.defs[n]])
    ELSE r

\* adapter.json_schema(ref_template=..., schema_generator=GenerateTypedJsonSchema)
json_schema(annotation) == inline_root(generate_inner(annotation))

(***************************************************************************)
(* The capability class: attribute name -> method. A method is             *)
(* [mark, binding, params, ret, request_content, response_content, doc];   *)
(* mark is the attribute the annotation set on it, binding how the         *)
(* function is bound in the class body, params the parameters of its def   *)
(* in order, ret its return annotation.                                    *)
(***************************************************************************)
\* capability.__name__
CapName == "Capability"

BASE_ATTR == "intersect_message"
BASE_STATUS_ATTR == "intersect_status"

\* IntersectMimeType values
MimeJSON == "application/json"
MimeString == "text/plain"

P(name, kind, annotation, default) ==
    [name |-> name, kind |-> kind, annotation |-> annotation, default |-> default]

\* the receiver of an ordinary method
Self == P("self", "POSITIONAL_OR_KEYWORD", Empty, FALSE)
\* the receiver of a class method
Cls == P("cls", "POSITIONAL_OR_KEYWORD", Empty, FALSE)
\* a positional parameter annotated t, without a default
Arg(name, t) == P(name, "POSITIONAL_OR_KEYWORD", t, FALSE)

M(mark, binding, params, ret) ==
    [mark |-> mark, binding |-> binding, params |-> params, ret |-> ret,
     request_content |-> MimeJSON, response_content |-> MimeJSON, doc |-> <<>>]

\* dir(capability): the attribute names in ascending order
NamePool == <<"alpha", "beta", "delta", "gamma", "kappa", "lambda">>
Names == {NamePool[i] : i \in 1..MaxMethods}
\* faulty variant of dir: the names in descending order
dir_descending(cap) ==
    LET names == SelectSeq(SubSeq(NamePool, 1, MaxMethods), LAMBDA n : n \in DOMAIN cap)
    IN  [i \in 1..Len(names) |-> names[Len(names) + 1 - i]]

dir(cap) == SelectSeq(SubSeq(NamePool, 1, MaxMethods), LAMBDA n : n \in DOMAIN cap)

\* faulty variant of get_functions: the attribute is not tested
get_functions_unfiltered(cap, attr) == dir(cap)

\* _get_functions: the callables of the class carrying attr, in dir order
get_functions(cap, attr) == SelectSeq(dir(cap), LAMBDA n : cap[n].mark = attr)

\* inspect.signature(method).parameters of getattr(capability, name): a
\* function found through the class keeps every parameter of its def, a
\* class method is bound to the class and loses the first one
signature(method) ==
    IF method.binding = "classmethod" THEN Tail(method.params) ELSE method.params

\* die(message): the message is logged as critical and the process exits
die(text) == [level |-> "CRITICAL", text |-> text]
\* logger.warning(message)
warning(text) == [level |-> "WARNING", text |-> text]

(***************************************************************************)
(* _merge_schema_definitions(adapter, schemas, annotation)                 *)
(***************************************************************************)
\* the annotation tests of _merge_schema_definitions
is_type_alias(annotation) == annotation.tag = "TypeAliasType"
is_mapping(annotation) == annotation.tag = "Dict"
is_named_tuple(annotation) == annotation.tag = "NamedTuple"
is_enum(annotation) == annotation.tag = "Enum"

\* faulty variant of promote: a name that is bound already keeps its schema
promote_first_wins(sch, annotation, schema) ==
    [ok |-> TRUE, cause |-> <<>>,
     schemas |-> Update(annotation.name :> schema, sch),
     payload |-> RefTo(annotation.name)]

\* schemas[annotation.name] = schema; return {'$ref': ...}
promote(sch, annotation, schema) ==
    [ok |-> TRUE, cause |-> <<>>,
     schemas |-> Update(sch, annotation.name :> schema),
     payload |-> RefTo(annotation.name)]

keep(sch, schema) == [ok |-> TRUE, cause |-> <<>>, schemas |-> sch, payload |-> schema]

\* faulty variant of channel_payload: every fragment is promoted under the name of
\* its type
channel_payload_promote_all(merged, annotation, schema) ==
    promote(merged, annotation, schema)

\* faulty variant of channel_payload: the shape of the fragment is looked at before
\* the alias
channel_payload_shape_first(merged, annotation, schema) ==
    IF schema.type = "object"
    THEN IF is_mapping(annotation) THEN keep(merged, schema)
         ELSE promote(merged, annotation, schema)
    ELSE IF schema.type = "array"
    THEN IF is_named_tuple(annotation) THEN promote(merged, annotation, schema)
         ELSE keep(merged, schema)
    ELSE IF schema.marker \in {"enum", "const"}
    THEN IF is_enum(annotation) THEN promote(merged, annotation, schema)
         ELSE keep(merged, schema)
    ELSE IF is_type_alias(annotation) THEN promote(merged, annotation, schema)
    ELSE keep(merged, schema)

\* faulty variant of channel_payload: an object fragment is promoted whatever the
\* type, a mapping included
channel_payload_no_mapping(merged, annotation, schema) ==
    IF is_type_alias(annotation) THEN promote(merged, annotation, schema)
    ELSE IF schema.type = "object" THEN promote(merged, annotation, schema)
    ELSE IF schema.type = "array"
    THEN IF is_named_tuple(annotation) THEN promote(merged, annotation, schema)
         ELSE keep(merged, schema)
    ELSE IF schema.marker \in {"enum", "const"}
    THEN IF is_enum(annotation) THEN promote(merged, annotation, schema)
         ELSE keep(merged, schema)
    ELSE keep(merged, schema)

\* the value put in the channel payload for a generated schema, and the
\* schemas after it
channel_payload(merged, annotation, schema) ==
    IF is_type_alias(annotation) THEN promote(merged, annotation, schema)
    ELSE IF schema.type = "object"
    THEN IF is_mapping(annotation) THEN keep(merged, schema)
         ELSE promote(merged, annotation, schema)
    ELSE IF schema.type = "array"
    THEN IF is_named_tuple(annotation) THEN promote(merged, annotation, schema)
         ELSE keep(merged, schema)
    ELSE IF schema.marker \in {"enum", "const"}
    THEN IF is_enum(annotation) THEN promote(merged, annotation, schema)
         ELSE keep(merged, schema)
    ELSE keep(merged, schema)

\* faulty variant of merge_generated: the '$defs' of the schema are dropped instead
\* of being merged into schemas
merge_generated_without_defs(sch, annotation, generated) ==
    IF ~generated.ok
    THEN [ok |-> FALSE, cause |-> generated.cause, schemas |-> sch, payload |-> NoFrag]
    ELSE channel_payload(sch, annotation, generated.schema)

\* the part of _merge_schema_definitions after adapter.json_schema(...)
merge_generated(sch, annotation, generated) ==
    IF ~generated.ok
    THEN [ok |-> FALSE, cause |-> generated.cause, schemas |-> sch, payload |-> NoFrag]
    ELSE channel_payload(Update(sch, generated.defs), annotation, generated.schema)

merge_schema_definitions(sch, annotation) ==
    merge_generated(sch, annotation, json_schema(annotation))

\* try: adapter = TypeAdapter(annotation); _merge_schema_definitions(adapter, ...)
\* except PydanticUserError
adapt_and_merge(sch, annotation) ==
    IF ~TypeAdapter(annotation).ok
    THEN [ok |-> FALSE, cause |-> TypeAdapter(annotation).cause, schemas |-> sch,
          payload |-> NoFrag]
    ELSE merge_schema_definitions(sch, annotation)

(***************************************************************************)
(* get_schemas_and_functions: the body of the loop over the entry points.  *)
(* Each block yields the messages it died with (none when it passed).      *)
(***************************************************************************)
\* no adapter (None) / the adapter of a type
NoAdapter == <<>>
AdapterOf(annotation) == <<annotation>>

\* faulty variant of parameter_count_rejected: a def without any parameter passes
parameter_count_rejected_no_zero(method_params) == Len(method_params) > 2

parameter_count_rejected(method_params) ==
    Len(method_params) = 0 \/ Len(method_params) > 2

parameter_count_check(name, method_params) ==
    IF parameter_count_rejected(method_params)
    THEN <<die(<<"On capability '", CapName, "', function '", name,
                 "' should have 'self' and ", "zero or one additional parameters">>)>>
    ELSE <<>>

Block(died, adapter, payload, sch) ==
    [died |-> died, adapter |-> adapter, payload |-> payload, schemas |-> sch]

\* the try/except around the request parameter's TypeAdapter and schema
request_payload(name, parameter, sch, merged) ==
    IF merged.ok
    THEN Block(<<>>, AdapterOf(parameter.annotation), <<merged.payload>>, merged.schemas)
    ELSE Block(<<die(<<"On capability '", CapName, "', parameter '", parameter.name,
                       "' type annotation '">>
                     \o Repr(parameter.annotation)
                     \o <<"' on function '", name, "' is invalid">>
                     \o merged.cause)>>,
               NoAdapter, <<>>, sch)

request_parameter(name, parameter, sch) ==
    IF parameter.annotation = Empty
    THEN Block(<<die(<<"On capability '", CapName, "', parameter '", parameter.name,
                       "' type annotation on function '", name, "' missing.">>)>>,
               NoAdapter, <<>>, sch)
    ELSE IF parameter.annotation = NoneType THEN Block(<<>>, NoAdapter, <<>>, sch)
    ELSE request_payload(name, parameter, sch, adapt_and_merge(sch, parameter.annotation))

\* "this block handles request params"
request_block(name, method_params, sch) ==
    IF Len(method_params) = 2
    THEN request_parameter(name, method_params[2], sch)
    ELSE Block(<<>>, NoAdapter, <<>>, sch)

\* the try/except around the return annotation's TypeAdapter and schema
response_payload(name, return_annotation, sch, merged) ==
    IF merged.ok
    THEN Block(<<>>, AdapterOf(return_annotation), <<merged.payload>>, merged.schemas)
    ELSE Block(<<die(<<"On capability '", CapName, "', return annotation '">>
                     \o Repr(return_annotation)
                     \o <<"' on function '", name, "' is invalid.">>
                     \o merged.cause)>>,
               NoAdapter, <<>>, sch)

\* faulty variant of response_block: a missing return annotation is taken for None
response_block_unchecked(name, return_annotation, sch) ==
    IF return_annotation \in {Empty, NoneType} THEN Block(<<>>, NoAdapter, <<>>, sch)
    ELSE response_payload(name, return_annotation, sch,
                          adapt_and_merge(sch, return_annotation))

\* "this block handles response parameters"
response_block(name, return_annotation, sch) ==
    IF return_annotation = Empty
    THEN Block(<<die(<<"On capability '", CapName, "', return type annotation on function '",
                       name, "' missing.">>)>>,
               NoAdapter, <<>>, sch)
    ELSE IF return_annotation = NoneType THEN Block(<<>>, NoAdapter, <<>>, sch)
    ELSE response_payload(name, return_annotation, sch,
                          adapt_and_merge(sch, return_annotation))

\* channels[name] as first assigned, before the payloads are known
new_channel(method) ==
    [publish |-> [contentType |-> method.request_content, payload |-> <<>>,
                  description |-> method.doc],
     subscribe |-> [contentType |-> method.response_content, payload |-> <<>>,
                    description |-> method.doc]]

\* faulty variant of FunctionMetadata: the two adapters change places
FunctionMetadata_swapped(name, request_adapter, response_adapter) ==
    [method |-> name, request_adapter |-> response_adapter,
     response_adapter |-> request_adapter]

\* FunctionMetadata(method, request_adapter, response_adapter)
FunctionMetadata(name, request_adapter, response_adapter) ==
    [method |-> name, request_adapter |-> request_adapter,
     response_adapter |-> response_adapter]

\* What one iteration of the loop leaves behind: the messages it died with,
\* channels[name] (if assigned), schemas and function_map[name] (if assigned).
Iteration(died, channel, sch, entry) ==
    [died |-> died, channel |-> channel, schemas |-> sch, entry |-> entry]

\* the iteration from the response block on
after_request(name, method, request, response) ==
    IF response.died # <<>>
    THEN Iteration(response.died,
                   <<[new_channel(method) EXCEPT !.subscribe.payload = request.payload]>>,
                   request.schemas, <<>>)
    ELSE Iteration(<<>>,
                   <<[new_channel(method) EXCEPT !.subscribe.payload = request.payload,
                                                 !.publish.payload = response.payload]>>,
                   response.schemas,
                   <<FunctionMetadata(name, request.adapter, response.adapter)>>)

\* faulty variant of after_count: a rejected request parameter is logged without
\* ending the iteration, and the response block reports as well
after_count_accumulating(name, method, sch, request) ==
    IF request.died # <<>>
    THEN Iteration(request.died \o response_block(name, method.ret, sch).died,
                   <<new_channel(method)>>, sch, <<>>)
    ELSE after_request(name, method, request,
                       response_block(name, method.ret, request.schemas))

\* faulty variant of after_count: the return slot is looked at before the result
\* of the request block
after_count_return_first(name, method, sch, request) ==
    IF method.ret = Empty
    THEN Iteration(response_block(name, method.ret, sch).died, <<new_channel(method)>>,
                   sch, <<>>)
    ELSE IF request.died # <<>>
    THEN Iteration(request.died, <<new_channel(method)>>, sch, <<>>)
    ELSE after_request(name, method, request,
                       response_block(name, method.ret, request.schemas))

\* the iteration from the request block on
after_count(name, method, sch, request) ==
    IF request.died # <<>>
    THEN Iteration(request.died, <<new_channel(method)>>, sch, <<>>)
    ELSE after_request(name, method, request,
                       response_block(name, method.ret, request.schemas))

\* one iteration of the loop over the entry points
entry_point(name, method, sch) ==
    IF parameter_count_check(name, signature(method)) # <<>>
    THEN Iteration(parameter_count_check(name, signature(method)), <<>>, sch, <<>>)
    ELSE after_count(name, method, sch, request_block(name, signature(method), sch))

\* faulty variant of no_entrypoints_check: the check is left out
no_entrypoints_unchecked(fm) == <<>>

\* "if len(function_map) == 0: die(...)"
no_entrypoints_check(fm) ==
    IF DOMAIN fm = {}
    THEN <<die(<<"No entrypoints detected", " on class '", CapName,
                 "'. Please annotate at least one entrypoint with '@intersect_message()' .">>)>>
    ELSE <<>>

(***************************************************************************)
(* _status_fn_schema(capability, schemas)                                  *)
(***************************************************************************)
Status(logged, name, schema, adapter, sch) ==
    [logged |-> logged, name |-> name, schema |-> schema, adapter |-> adapter,
     schemas |-> sch]

\* faulty variant of status_payload: the error of the schema compiler is logged as
\* it is, without the capability, the function and the return label
status_payload_bare(status_fn_name, return_annotation, sch, merged) ==
    IF merged.ok
    THEN Status(<<>>, <<status_fn_name>>, <<merged.payload>>,
                AdapterOf(return_annotation), merged.schemas)
    ELSE Status(<<die(merged.cause)>>, <<>>, <<>>, NoAdapter, sch)

\* faulty variant of status_payload: the definitions of the status type are not
\* merged into the shared schemas
status_payload_unmerged(status_fn_name, return_annotation, sch, merged) ==
    IF merged.ok
    THEN Status(<<>>, <<status_fn_name>>, <<merged.payload>>,
                AdapterOf(return_annotation), sch)
    ELSE Status(<<die(<<"On capability '", CapName, "', return annotation '">>
                      \o Repr(return_annotation)
                      \o <<"' on function '", status_fn_name, "' is invalid.">>
                      \o merged.cause)>>,
                <<>>, <<>>, NoAdapter, sch)

\* the try/except around the status return annotation's TypeAdapter and schema
status_payload(status_fn_name, return_annotation, sch, merged) ==
    IF merged.ok
    THEN Status(<<>>, <<status_fn_name>>, <<merged.payload>>,
                AdapterOf(return_annotation), merged.schemas)
    ELSE Status(<<die(<<"On capability '", CapName, "', return annotation '">>
                      \o Repr(return_annotation)
                      \o <<"' on function '", status_fn_name, "' is invalid.">>
                      \o merged.cause)>>,
                <<>>, <<>>, NoAdapter, sch)

\* _status_fn_schema once the single status function is known
status_fn(status_fn_name, method, sch) ==
    IF Len(signature(method)) # 1
    THEN Status(<<die(<<"On capability '", CapName, "', capability status function '",
                        status_fn_name, "' ",
                        "should have no parameters other than 'self'">>)>>,
                <<>>, <<>>, NoAdapter, sch)
    ELSE IF method.ret = Empty
    THEN Status(<<die(<<"On capability '", CapName, "', capability status function '",
                        status_fn_name, "' ", "should have a valid return annotation.">>)>>,
                <<>>, <<>>, NoAdapter, sch)
    ELSE status_payload(status_fn_name, method.ret, sch, adapt_and_merge(sch, method.ret))

\* faulty variant of status_fn_schema: the count of status functions is not limited,
\* the first one is taken
status_fn_schema_first(cap, sch) ==
    IF Len(get_functions(cap, BASE_STATUS_ATTR)) = 0
    THEN Status(<<warning(<<"Class '", CapName, "' ", "has no function annotated",
                            " with the @intersect_status() decorator.">>)>>,
                <<>>, <<>>, AdapterOf(NoneType), sch)
    ELSE status_fn(get_functions(cap, BASE_STATUS_ATTR)[1],
                   cap[get_functions(cap, BASE_STATUS_ATTR)[1]], sch)

\* faulty variant of status_fn_schema: a class without status function is rejected
\* like one with several
status_fn_schema_required(cap, sch) ==
    IF Len(get_functions(cap, BASE_STATUS_ATTR)) # 1
    THEN Status(<<die(<<"Class '", CapName, "' ", "should only have one function annotated",
                        " with the @intersect_status() decorator.">>)>>,
                <<>>, <<>>, NoAdapter, sch)
    ELSE status_fn(get_functions(cap, BASE_STATUS_ATTR)[1],
                   cap[get_functions(cap, BASE_STATUS_ATTR)[1]], sch)

status_fn_schema(cap, sch) ==
    IF Len(get_functions(cap, BASE_STATUS_ATTR)) > 1
    THEN Status(<<die(<<"Class '", CapName, "' ", "should only have one function annotated",
                        " with the @intersect_status() decorator.">>)>>,
                <<>>, <<>>, NoAdapter, sch)
    ELSE IF Len(get_functions(cap, BASE_STATUS_ATTR)) = 0
    THEN Status(<<warning(<<"Class '", CapName, "' ", "has no function annotated",
                            " with the @intersect_status() decorator.",
                            " No status information will be provided when sending status messages.">>)>>,
                <<>>, <<>>, AdapterOf(NoneType), sch)
    ELSE status_fn(get_functions(cap, BASE_STATUS_ATTR)[1],
                   cap[get_functions(cap, BASE_STATUS_ATTR)[1]], sch)

(***************************************************************************)
(* The capability classes of the model.                                    *)
(***************************************************************************)
\* number of explicit positional parameters a def of the model may declare
MaxParams == 2

ArgNames == <<"a", "b", "c", "d">>

\* k positional parameters annotated int
Positional(k) == [i \in 1..k |-> Arg(ArgNames[i], Int)]

\* the explicit parameters of a def: none to MaxParams positional ones, or
\* one parameter of each other form
ExplicitParams ==
    {Positional(k) : k \in 0..MaxParams}
    \cup {<<Arg("p", Empty)>>, <<Arg("p", NoneType)>>,
          <<P("p", "POSITIONAL_OR_KEYWORD", Int, TRUE)>>,
          <<P("kw", "KEYWORD_ONLY", Int, FALSE)>>,
          <<P("args", "VAR_POSITIONAL", Int, FALSE)>>,
          <<P("kwargs", "VAR_KEYWORD", Int, FALSE)>>}

\* the parameters of a def by binding: a function and a class method start
\* with the receiver (a function may have forgotten it), a static method
\* has no receiver
DeclaredParams(binding) ==
    CASE binding = "function" -> {<<>>} \cup {<<Self>> \o e : e \in ExplicitParams}
      [] binding = "classmethod" -> {<<Cls>> \o e : e \in ExplicitParams}
      [] binding = "staticmethod" -> ExplicitParams

Bindings == {"function", "classmethod", "staticmethod"}

\* methods that vary the signature, over int
SignaturePool ==
    {M(mark, b, ps, ret) :
        mark \in {BASE_ATTR, BASE_STATUS_ATTR},
        b \in Bindings,
        ps \in UNION {DeclaredParams(b2) : b2 \in Bindings},
        ret \in {Empty, NoneType, Int}}

WellBound(m) == m.params \in DeclaredParams(m.binding)

\* a type with a declared default: Annotated[t, Field(default=v)]
Field(default, t) == T("Field", default, <<t>>)

\* parameter types that declare a default: on the parameter type itself and
\* on the field of a record, a default that validates, one that does not
\* and one that cannot be serialized
DefaultTypes ==
    {Field(d, Int) : d \in {"valid", "mismatch", "unserializable"}}
    \cup {T("BaseModel", "Nested", <<Field(d, Int)>>) :
              d \in {"valid", "mismatch", "unserializable"}}

\* methods that vary one annotation over the type descriptors
TypePool ==
    {M(BASE_ATTR, "function", <<Self, Arg("p", t)>>, NoneType) : t \in Types}
    \cup {M(BASE_ATTR, "function", <<Self>>, t) : t \in Types}
    \cup {M(BASE_STATUS_ATTR, "function", <<Self>>, t) : t \in Types}
    \cup {M(BASE_ATTR, "function", <<Self, Arg("one", t)>>, Int) : t \in DefaultTypes}

FullPool == {m \in SignaturePool : WellBound(m)} \cup TypePool

\* an attribute the class does not define
Absent == M("absent", "function", <<>>, Empty)
\* a method without annotation
PlainMethod == M("none", "function", <<Self, Arg("one", Int)>>, Int)
\* an entry point that passes every check, with a docstring
ValidEntry ==
    [M(BASE_ATTR, "function", <<Self, Arg("one", Int)>>, Int)
        EXCEPT !.request_content = MimeString, !.doc = <<"doc">>]
\* an entry point that passes and uses a named record
RecordEntry ==
    M(BASE_ATTR, "function",
      <<Self, Arg("one", T("BaseModel", NameAt("BaseModel", 1), <<Int>>))>>, NoneType)
\* an entry point that passes and returns another record of the same name
RecordOther ==
    M(BASE_ATTR, "function", <<Self>>, T("BaseModel", NameAt("BaseModel", 1), <<Str>>))
\* an entry point with a rejected parameter type and no return annotation
InvalidEntry == M(BASE_ATTR, "function", <<Self, Arg("one", AnyType)>>, Empty)
\* status functions: one that passes, one with a parameter too many
ValidStatus == M(BASE_STATUS_ATTR, "function", <<Self>>, Int)
InvalidStatus == M(BASE_STATUS_ATTR, "function", <<Self, Arg("one", Int)>>, Int)

BasicPool ==
    {Absent, PlainMethod, ValidEntry, RecordEntry, RecordOther, InvalidEntry, ValidStatus,
     InvalidStatus}

\* the class whose attributes are the methods of f that are not Absent
ClassOf(f) == [n \in {x \in Names : f[x] # Absent} |-> f[n]]

\* The classes of the model: every combination of the basic methods, and
\* every method of the full pool, alone or beside passing entry points.
Init ==
    /\ \/ \E f \in [Names -> BasicPool] : capability = ClassOf(f)
       \/ \E focus \in Names, m \in FullPool, other \in {Absent, ValidEntry} :
             capability = ClassOf([n \in Names |-> IF n = focus THEN m ELSE other])
    /\ pc = "loop"
    /\ idx = 1
    /\ function_map = <<>>
    /\ schemas = <<>>
    /\ channels = <<>>
    /\ log = <<>>
    /\ examined = <<>>
    /\ result = <<>>
    /\ func = <<>>
    /\ decorator = <<>>
    /\ wrapper = <<>>
    /\ invoked = <<>>

\* a die among the messages ends the process
Exits(messages) == \E i \in DOMAIN messages : messages[i].level = "CRITICAL"

\* one iteration of "for name, method in _get_functions(capability, BASE_ATTR)"
ScanEntryPoint ==
    /\ pc = "loop"
    /\ idx <= Len(get_functions(capability, BASE_ATTR))
    /\ \E name \in {get_functions(capability, BASE_ATTR)[idx]} :
       \E r \in {entry_point(name, capability[name], schemas)} :
           /\ examined' = Append(examined, name)
           /\ log' = log \o r.died
           /\ channels' = IF r.channel = <<>> THEN channels
                          ELSE Update(channels, name :> r.channel[1])
           /\ schemas' = r.schemas
           /\ function_map' = IF r.entry = <<>> THEN function_map
                              ELSE Update(function_map, name :> r.entry[1])
           /\ pc' = IF Exits(r.died) THEN "died" ELSE "loop"
           /\ idx' = idx + 1
    /\ UNCHANGED <<capability, result, annotated>>

\* the loop is over: "if len(function_map) == 0: die(...)"
CheckEntrypoints ==
    /\ pc = "loop"
    /\ idx > Len(get_functions(capability, BASE_ATTR))
    /\ log' = log \o no_entrypoints_check(function_map)
    /\ pc' = IF Exits(no_entrypoints_check(function_map)) THEN "died" ELSE "status"
    /\ UNCHANGED <<capability, idx, function_map, schemas, channels, examined, result, annotated>>

\* "return schemas, _status_fn_schema(capability, schemas), channels, function_map"
StatusAndReturn ==
    /\ pc = "status"
    /\ \E r \in {status_fn_schema(capability, schemas)} :
           /\ log' = log \o r.logged
           /\ schemas' = r.schemas
           /\ examined' = IF Len(get_functions(capability, BASE_STATUS_ATTR)) = 1
                          THEN Append(examined, get_functions(capability, BASE_STATUS_ATTR)[1])
                          ELSE examined
           /\ pc' = IF Exits(r.logged) THEN "died" ELSE "done"
           /\ result' = IF Exits(r.logged) THEN <<>>
                        ELSE <<[schemas |-> r.schemas,
                                status |-> [name |-> r.name, schema |-> r.schema,
                                            adapter |-> r.adapter],
                                channels |-> channels,
                                function_map |-> function_map]>>
    /\ UNCHANGED <<capability, idx, function_map, channels, annotated>>

Next == ScanEntryPoint \/ CheckEntrypoints \/ StatusAndReturn

Spec == Init /\ [][Next]_vars

(***************************************************************************)
(* annotations.py: intersect_message and intersect_status. A def is        *)
(* [mark, binding, params, ret, doc, body, wrapped]; body says what a call *)
(* that binds its arguments does, wrapped is __wrapped__ (empty on a def). *)
(***************************************************************************)
\* IntersectMimeType: member -> value
MimeBinary == "application/octet-string"
IntersectMimeType == [JSON |-> MimeJSON, STRING |-> MimeString, BINARY |-> MimeBinary]
\* IntersectDataHandler: member -> value
IntersectDataHandler == [MESSAGE |-> 0, MINIO |-> 1]

\* a def of the class body, not annotated yet
Def(params, ret, body) ==
    [mark |-> "none", binding |-> "function", params |-> params, ret |-> ret,
     doc |-> <<"doc">>, body |-> body, wrapped |-> <<>>]

\* a call: positional arguments and keyword arguments
Call(args, kwargs) == [args |-> args, kwargs |-> kwargs]
\* what a call comes to: a returned value or a raised exception
Outcome(kind, value, exception) == [kind |-> kind, value |-> value, exception |-> exception]

\* func(*args, **kwargs) cannot bind: too many positional arguments, a
\* keyword that names no free parameter, or a parameter left without value
bind_error(f, call) ==
    \/ Len(call.args) > Len(f.params)
    \/ \E k \in DOMAIN call.kwargs :
          ~\E i \in (Len(call.args) + 1)..Len(f.params) : f.params[i].name = k
    \/ \E i \in (Len(call.args) + 1)..Len(f.params) :
          f.params[i].name \notin DOMAIN call.kwargs

\* the values the parameters of f are bound to, in the order of the def
bound(f, call) ==
    [i \in 1..Len(f.params) |->
        IF i <= Len(call.args) THEN call.args[i] ELSE call.kwargs[f.params[i].name]]

\* calling a def: TypeError when the arguments do not bind, else its body,
\* which raises or returns what it was given
apply(f, call) ==
    IF bind_error(f, call) THEN Outcome("raise", <<>>, "TypeError")
    ELSE IF f.body = "raise" THEN Outcome("raise", <<>>, "ValueError")
    ELSE Outcome("return", bound(f, call), "")

RECURSIVE invoke(_, _)
\* faulty variant of wrapper_call: the keyword arguments are not passed on
wrapper_call_positional(callable, call) ==
    invoke(callable.wrapped[1], [call EXCEPT !.kwargs = <<>>])

\* def wrapper(*args, **kwargs): return func(*args, **kwargs)
wrapper_call(callable, call) == invoke(callable.wrapped[1], call)

\* calling a callable: a def runs, a wrapper passes the call on
invoke(callable, call) ==
    IF callable.wrapped = <<>> THEN apply(callable, call)
    ELSE wrapper_call(callable, call)

\* @functools.wraps(func): the wrapper takes the docstring and annotations
\* of func and keeps it as __wrapped__, which inspect.signature follows
wraps(f) ==
    [binding |-> f.binding, params |-> f.params, ret |-> f.ret, doc |-> f.doc,
     wrapped |-> <<f>>]

\* what applying an annotation comes to: the exceptions raised, the callable returned
Decorated(raised, callable) == [raised |-> raised, callable |-> callable]

\* set(x): None is not iterable
py_set(x) ==
    IF x = <<>> THEN [raised |-> <<"TypeError">>, value |-> {}]
    ELSE [raised |-> <<>>, value |-> x[1]]

\* faulty variant of shutdown_keys: set(ignore_keys) without the test
shutdown_keys_unguarded(ignore_keys) == py_set(ignore_keys)

\* set(ignore_keys) if ignore_keys else set(); None is <<>>, a set S is <<S>>
shutdown_keys(ignore_keys) ==
    IF ignore_keys # <<>> /\ ignore_keys[1] # {} THEN py_set(ignore_keys)
    ELSE [raised |-> <<>>, value |-> {}]

\* inner_decorator of intersect_message: the attributes set on the wrapper
inner_decorator(args, f) ==
    IF shutdown_keys(args.ignore_keys).raised # <<>>
    THEN Decorated(shutdown_keys(args.ignore_keys).raised, <<>>)
    ELSE Decorated(<<>>,
              <<wraps(f) @@
                [mark |-> BASE_ATTR,
                 request_content |-> IntersectMimeType[args.request_content_type],
                 response_content |-> IntersectMimeType[args.response_content_type],
                 response_data |-> IntersectDataHandler[args.response_data_transfer_handler],
                 strict_validation |-> args.strict_request_validation,
                 shutdown_keys |-> shutdown_keys(args.ignore_keys).value]>>)

\* the defaults of the parameters of intersect_message
Defaults ==
    [ignore_keys |-> <<>>, request_content_type |-> "JSON",
     response_data_transfer_handler |-> "MESSAGE", response_content_type |-> "JSON",
     strict_request_validation |-> FALSE]

\* intersect_message(**given)(func): a parameter not given takes its default
intersect_message(given, f) == inner_decorator(given @@ Defaults, f)

\* intersect_status()(func)
intersect_status(f) == Decorated(<<>>, <<wraps(f) @@ [mark |-> BASE_STATUS_ATTR]>>)

(***************************************************************************)
(* The annotation step: the defs, the keyword arguments and the calls of   *)
(* the model.                                                              *)
(***************************************************************************)
\* the defs handed to an annotation: with and without receiver, none to
\* MaxParams explicit parameters, every return slot, both bodies
Defs ==
    {Def(ps, ret, body) :
        ps \in {<<>>} \cup {<<Self>> \o Positional(k) : k \in 0..MaxParams},
        ret \in {Empty, NoneType, Int},
        body \in {"return", "raise"}}

\* a keyword argument that is given (<<v>>) or left out (<<>>)
Keyword(name, given) == IF given = <<>> THEN <<>> ELSE name :> given[1]

\* the keyword arguments of intersect_message(...): each one left out or
\* set to a value of its type
KeywordArguments ==
    {Keyword("ignore_keys", ik) @@ Keyword("request_content_type", rq)
        @@ Keyword("response_data_transfer_handler", dh)
        @@ Keyword("response_content_type", rs)
        @@ Keyword("strict_request_validation", st) :
        ik \in {<<>>, <<<<>>>>, <<<<{}>>>>, <<<<{"stop"}>>>>},
        rq \in {<<>>} \cup {<<m>> : m \in DOMAIN IntersectMimeType},
        dh \in {<<>>} \cup {<<h>> : h \in DOMAIN IntersectDataHandler},
        rs \in {<<>>} \cup {<<m>> : m \in DOMAIN IntersectMimeType},
        st \in {<<>>, <<TRUE>>, <<FALSE>>}}

\* intersect_message(ignore_keys={'stop'}, request_content_type=STRING, ...)
EveryKeyword ==
    [ignore_keys |-> <<{"stop"}>>, request_content_type |-> "STRING",
     response_data_transfer_handler |-> "MINIO", response_content_type |-> "BINARY",
     strict_request_validation |-> TRUE]

\* the calls made on an annotated callable: none to MaxParams + 2 positional
\* arguments, with or without a keyword argument
Calls ==
    {Call([i \in 1..k |-> i], kw) :
        k \in 0..(MaxParams + 2),
        kw \in {<<>>, ArgNames[1] :> 7, "other" :> 7}}

\* A def of the class body and the annotation written above it: every def
\* under @intersect_status(), under @intersect_message() and under
\* intersect_message with every keyword; one def under every combination
\* of keywords.
AnnotateInit ==
    /\ \/ \E d \in Defs :
            /\ func = d
            /\ \/ decorator = [name |-> BASE_STATUS_ATTR, given |-> <<>>]
               \/ \E g \in {<<>>, EveryKeyword} :
                     decorator = [name |-> BASE_ATTR, given |-> g]
       \/ \E g \in KeywordArguments :
            /\ func = Def(<<Self>> \o Positional(1), Int, "return")
            /\ decorator = [name |-> BASE_ATTR, given |-> g]
    /\ capability = <<>>
    /\ pc = "annotate"
    /\ idx = 1
    /\ function_map = <<>>
    /\ schemas = <<>>
    /\ channels = <<>>
    /\ log = <<>>
    /\ examined = <<>>
    /\ result = <<>>
    /\ wrapper = <<>>
    /\ invoked = <<>>

introspection == <<capability, idx, function_map, schemas, channels, log, examined, result>>

\* the annotation is applied to the def
Decorate ==
    /\ pc = "annotate"
    /\ \E r \in {IF decorator.name = BASE_ATTR
                 THEN intersect_message(decorator.given, func)
                 ELSE intersect_status(func)} :
          /\ wrapper' = <<r>>
          /\ pc' = IF r.raised # <<>> THEN "raised" ELSE "annotated"
    /\ UNCHANGED <<introspection, func, decorator, invoked>>

\* the annotated callable is called
Invoke ==
    /\ pc = "annotated"
    /\ invoked = <<>>
    /\ \E call \in Calls :
          invoked' = <<[call |-> call, outcome |-> invoke(wrapper[1].callable[1], call)]>>
    /\ UNCHANGED <<introspection, pc, func, decorator, wrapper>>

\* get_schemas_and_functions is called on the class that holds the annotated
\* callable, alone or beside a passing entry point
Introspect ==
    /\ pc = "annotated"
    /\ invoked # <<>>
    /\ \E other \in {Absent, ValidEntry} :
          capability' = ClassOf([n \in Names |->
                                    IF n = NamePool[1] THEN wrapper[1].callable[1]
                                    ELSE IF n = NamePool[2] THEN other ELSE Absent])
    /\ pc' = "loop"
    /\ UNCHANGED <<idx, function_map, schemas, channels, log, examined, result, annotated>>

AnnotateNext ==
    Decorate \/ Invoke \/ Introspect \/ ScanEntryPoint \/ CheckEntrypoints \/ StatusAndReturn

AnnotateSpec == AnnotateInit /\ [][AnnotateNext]_vars

(***************************************************************************)
(* Vocabulary of the properties.                                           *)
(***************************************************************************)
\* the methods of the class annotated as entry points / as status accessor
AnnotatedEntryPoints == {n \in DOMAIN capability : capability[n].mark = BASE_ATTR}
StatusAccessors == {n \in DOMAIN capability : capability[n].mark = BASE_STATUS_ATTR}

Returned == result # <<>>
Failed == pc = "died"
Violations == SelectSeq(log, LAMBDA m : m.level = "CRITICAL")
\* the text of the message logged last
LastText == log[Len(log)].text
\* compile failed while examining method n
FailedOn(n) == Failed /\ examined # <<>> /\ examined[Len(examined)] = n /\ Contains(LastText, n)
\* every entry point passed and the status accessor stage was run
StatusStageRun ==
    /\ pc \in {"done", "died"}
    /\ AnnotatedEntryPoints # {}
    /\ DOMAIN function_map = AnnotatedEntryPoints
\* the entry points examined so far
ExaminedEntryPoints == {examined[i] : i \in DOMAIN examined} \cap AnnotatedEntryPoints

(***************************************************************************)
(* C1. Whenever compile returns, the key set of the returned Dispatch      *)
(* Table is exactly the set of names of the methods annotated as entry     *)
(* points: none is missing and no un-annotated method is present.          *)
(***************************************************************************)
C1_DispatchKeysAreEntryPoints ==
    Returned => DOMAIN result[1].function_map = AnnotatedEntryPoints

\* compile returned for a class with an entry point and a method that is none
C1_Witness ==
    /\ Returned
    /\ AnnotatedEntryPoints # {}
    /\ \E n \in DOMAIN capability : capability[n].mark = "none"

(***************************************************************************)
(* C2. A type with an any/unconstrained leaf (root, sequence element,      *)
(* mapping value, tuple member, generator yield type), used as an entry    *)
(* point's parameter or return type, makes compile fail.                   *)
(***************************************************************************)
RECURSIVE AnyLeafAt(_), DirectAny(_), NonStrKey(_)
\* t has an any/object leaf at the root or under sequences, mapping values,
\* tuple members and generator yield types
AnyLeafAt(t) ==
    \/ t.tag \in {"Any", "object"}
    \/ /\ t.tag \in {"List", "Set", "FrozenSet", "Generator", "TupleVar", "Tuple"}
       /\ \E i \in DOMAIN t.args : AnyLeafAt(t.args[i])
    \/ t.tag = "Dict" /\ AnyLeafAt(t.args[2])

\* on the way to the leaf, typing.Any is written directly as the element
\* type of a list, set or frozenset or as the value type of a mapping
DirectAny(t) ==
    \/ t.tag \in {"List", "Set", "FrozenSet"} /\ t.args[1] = AnyType
    \/ t.tag = "Dict" /\ t.args[2] = AnyType
    \/ /\ t.tag \in {"List", "Set", "FrozenSet", "Generator", "TupleVar", "Tuple"}
       /\ \E i \in DOMAIN t.args : AnyLeafAt(t.args[i]) /\ DirectAny(t.args[i])
    \/ t.tag = "Dict" /\ DirectAny(t.args[2])

\* on the way to the leaf, a mapping has a key type other than str
NonStrKey(t) ==
    \/ t.tag = "Dict" /\ t.args[1] # Str
    \/ /\ t.tag \in {"List", "Set", "FrozenSet", "Generator", "TupleVar", "Tuple"}
       /\ \E i \in DOMAIN t.args : AnyLeafAt(t.args[i]) /\ NonStrKey(t.args[i])
    \/ t.tag = "Dict" /\ NonStrKey(t.args[2])

\* an ordinary entry point "def n(self, p: t) -> None" or "def n(self) -> t"
TypeUnderTest(m) ==
    IF /\ m.mark = BASE_ATTR /\ m.binding = "function" /\ Len(m.params) = 2
       /\ m.ret = NoneType /\ m.params[2].kind = "POSITIONAL_OR_KEYWORD"
       /\ ~m.params[2].default /\ m.params[2].annotation \notin {Empty, NoneType}
    THEN <<m.params[2].annotation>>
    ELSE IF /\ m.mark = BASE_ATTR /\ m.binding = "function" /\ Len(m.params) = 1
            /\ m.ret \notin {Empty, NoneType}
    THEN <<m.ret>>
    ELSE <<>>

DynamicTyping == "dynamic typing is not allowed"
ContainerCauses ==
    {"list subtyping may not be dynamic in INTERSECT",
     "set subtyping may not be dynamic in INTERSECT",
     "frozenset subtyping may not be dynamic in INTERSECT",
     "value type cannot be Any/object"}

\* the claim as stated: the message always contains "dynamic typing is not allowed"
C2_AlwaysDynamicTypingMessage ==
    \A n \in ExaminedEntryPoints :
        \A i \in DOMAIN TypeUnderTest(capability[n]) :
            AnyLeafAt(TypeUnderTest(capability[n])[i])
                => FailedOn(n) /\ Contains(LastText, DynamicTyping)

\* the claim as amended: compile fails on the entry point; the message
\* contains "dynamic typing is not allowed" unless typing.Any is written
\* directly as the element type of a list, set or frozenset or as a mapping
\* value, which are reported with the container's own cause (and a mapping
\* with a non-string key on the way is reported with the key cause)
C2_AnyLeafRejected ==
    \A n \in ExaminedEntryPoints :
        \A i \in DOMAIN TypeUnderTest(capability[n]) :
            LET t == TypeUnderTest(capability[n])[i] IN
            AnyLeafAt(t) =>
                /\ FailedOn(n)
                /\ ~Returned
                /\ Len(Violations) = 1
                /\ Contains(LastText, "Cannot generate a JsonSchema for ")
                /\ NonStrKey(t) \/ DirectAny(t) \/ Contains(LastText, DynamicTyping)
                /\ (DirectAny(t) /\ ~NonStrKey(t))
                       => \E c \in ContainerCauses : Contains(LastText, c)

\* rejected with "dynamic typing": an any leaf under a tuple member
C2_Witness ==
    \E n \in ExaminedEntryPoints :
        /\ TypeUnderTest(capability[n]) = <<T("Tuple", "", <<Int, Object>>)>>
        /\ FailedOn(n)
        /\ Contains(LastText, DynamicTyping)

C4_FailFast ==
    /\ Len(Violations) <= 1
    /\ Len(Violations) = 1 =>
          /\ Failed
          /\ log[Len(log)].level = "CRITICAL"
          /\ ~Returned
          /\ ~ENABLED Next
    /\ Failed => Len(Violations) = 1

\* failed on the first of two entry points that are both in violation, with
\* a status accessor in violation too
C4_Witness ==
    /\ Failed
    /\ Len(examined) = 1
    /\ \E n \in AnnotatedEntryPoints :
          /\ n # examined[1]
          /\ capability[n] = InvalidEntry
    /\ \E n \in StatusAccessors : capability[n] = InvalidStatus

(***************************************************************************)
(* C5. A class with two or more methods marked as status accessor makes    *)
(* compile fail; when its entry points pass, the message contains "should  *)
(* only have one function annotated" and names the class.                  *)
(***************************************************************************)
C5_TooManyStatusFunctions ==
    Cardinality(StatusAccessors) >= 2 =>
        /\ ~Returned
        /\ pc # "done"
        /\ StatusStageRun =>
              /\ Failed
              /\ Contains(LastText, "should only have one function annotated")
              /\ Contains(LastText, CapName)

\* a class with a passing entry point and two status accessors was rejected
C5_Witness ==
    /\ Cardinality(StatusAccessors) >= 2
    /\ StatusStageRun
    /\ Failed
    /\ Contains(LastText, "should only have one function annotated")

(***************************************************************************)
(* C6. With at least one valid entry point and no status accessor compile  *)
(* does not halt: it logs a warning and returns the four artifacts with    *)
(* the status name and schema absent; this is the only diagnostic that     *)
(* does not halt compile.                                                  *)
(***************************************************************************)
C6_MissingStatusIsNotFatal ==
    /\ (StatusStageRun /\ StatusAccessors = {}) =>
          /\ pc = "done"
          /\ Returned
          /\ result[1].status.name = <<>>
          /\ result[1].status.schema = <<>>
          /\ result[1].function_map = function_map
          /\ result[1].channels = channels
          /\ result[1].schemas = schemas
          /\ Len(log) = 1
          /\ log[1].level = "WARNING"
          /\ Contains(log[1].text, "has no function annotated")
          /\ Contains(log[1].text, CapName)
    /\ \A i \in DOMAIN log :
          \/ log[i].level = "CRITICAL" /\ i = Len(log) /\ Failed
          \/ /\ log[i].level = "WARNING"
             /\ Contains(log[i].text, "has no function annotated")
             /\ StatusAccessors = {}
    /\ Returned => \A i \in DOMAIN log : log[i].level = "WARNING"

\* returned with a warning for a class with entry points and no status accessor
C6_Witness ==
    /\ Returned
    /\ StatusAccessors = {}
    /\ Cardinality(AnnotatedEntryPoints) >= 2
    /\ Len(log) = 1
    /\ log[1].level = "WARNING"

(***************************************************************************)
(* C7. An ordinary entry point passes the parameter-count check exactly    *)
(* when it has the receiver and zero or one explicit parameter besides it; *)
(* with two or more explicit parameters, or without the receiver, compile  *)
(* fails with "zero or one additional parameters".                         *)
(***************************************************************************)
\* compile failed on n with the parameter-count message
CountRejected(n) == FailedOn(n) /\ Contains(LastText, "zero or one additional parameters")

HasReceiver(m) == Len(m.params) >= 1
\* the parameters of the def besides the receiver
ExplicitCount(m) == Len(m.params) - 1

C7_ParameterCount ==
    \A n \in ExaminedEntryPoints :
        capability[n].binding = "function" =>
            (CountRejected(n)
                <=> ~(HasReceiver(capability[n]) /\ ExplicitCount(capability[n]) \in {0, 1}))

\* an ordinary entry point with two explicit parameters was rejected
C7_Witness ==
    \E n \in ExaminedEntryPoints :
        /\ capability[n].binding = "function"
        /\ HasReceiver(capability[n])
        /\ ExplicitCount(capability[n]) = 2
        /\ CountRejected(n)

(***************************************************************************)
(* C8. An entry point whose request parameter has a default value in the   *)
(* function signature makes compile fail with "should not use a default    *)
(* value in the function parameter".                                       *)
(***************************************************************************)
C8_DefaultValueRejected ==
    \A n \in ExaminedEntryPoints :
        (/\ capability[n].binding = "function"
         /\ capability[n].ret = Int
         /\ Len(capability[n].params) = 2
         /\ capability[n].params[2].annotation = Int
         /\ capability[n].params[2].default)
            => /\ FailedOn(n)
               /\ Contains(LastText, "should not use a default value in the function parameter")

(***************************************************************************)
(* C9. An entry point with a keyword-only, *args or **kwargs parameter     *)
(* makes compile fail with "should not use keyword or variable length      *)
(* arguments", even when the parameter count is in range.                  *)
(***************************************************************************)
C9_KeywordOrVariadicRejected ==
    \A n \in ExaminedEntryPoints :
        (/\ capability[n].binding = "function"
         /\ capability[n].ret = Int
         /\ Len(capability[n].params) = 2
         /\ \E i \in DOMAIN capability[n].params :
               capability[n].params[i].kind
                   \in {"KEYWORD_ONLY", "VAR_POSITIONAL", "VAR_KEYWORD"})
            => /\ FailedOn(n)
               /\ Contains(LastText, "should not use keyword or variable length arguments")

(***************************************************************************)
(* C10. An entry point annotation combined with @classmethod makes compile *)
(* fail with "INTERSECT annotations cannot be used with @classmethod";     *)
(* such a method never ends up in the Dispatch Table.                      *)
(***************************************************************************)
C10_ClassMethodRejected ==
    \A n \in AnnotatedEntryPoints :
        (/\ capability[n].binding = "classmethod"
         /\ capability[n].ret = Int
         /\ Len(capability[n].params) = 2
         /\ capability[n].params[2] = Arg("a", Int)) =>
            /\ n \notin DOMAIN function_map
            /\ n \in ExaminedEntryPoints =>
                  /\ FailedOn(n)
                  /\ Contains(LastText, "INTERSECT annotations cannot be used with @classmethod")

(***************************************************************************)
(* C11. A static entry point has no receiver and all of its parameters     *)
(* count as explicit: with two parameters it is rejected with "zero or one *)
(* additional parameters"; with one parameter, that parameter is the       *)
(* request parameter and must carry a type annotation.                     *)
(***************************************************************************)
\* compile failed on n because a parameter has no type annotation
MissingParameter(n) ==
    /\ FailedOn(n)
    /\ Contains(LastText, "', parameter '")
    /\ Contains(LastText, "' type annotation on function '")
    /\ Contains(LastText, "' missing.")

C11_StaticEntryPoint ==
    \A n \in ExaminedEntryPoints :
        (capability[n].binding = "staticmethod" /\ capability[n].ret = Int) =>
            /\ capability[n].params = Positional(2) => CountRejected(n)
            /\ capability[n].params = <<Arg("p", Empty)>> =>
                  MissingParameter(n) /\ Contains(LastText, "p")
            /\ (capability[n].params = Positional(1) /\ n \in DOMAIN function_map) =>
                  function_map[n].request_adapter = AdapterOf(Int)

(***************************************************************************)
(* C12. An entry point whose request parameter or return slot has no type  *)
(* annotation makes compile fail; the message says that the annotation is  *)
(* missing and names the function (and the parameter).                     *)
(***************************************************************************)
\* compile failed on n because the return slot has no annotation
MissingReturn(n) ==
    /\ FailedOn(n)
    /\ Contains(LastText, "', return type annotation on function '")
    /\ Contains(LastText, "' missing.")

PayloadsFollowAdapters(n) ==
    /\ result[1].channels[n].subscribe.payload # <<>>
          <=> result[1].function_map[n].request_adapter # NoAdapter
    /\ result[1].channels[n].publish.payload # <<>>
          <=> result[1].function_map[n].response_adapter # NoAdapter

RECURSIVE DeepRejected(_)
\* somewhere in t: an any/object leaf, a class pydantic cannot parse, a
\* record without fields or a tuple without members
DeepRejected(t) ==
    \/ t.tag \in {"Any", "object", "class"}
    \/ t.tag \in RecordKinds \cup {"Tuple"} /\ t.args = <<>>
    \/ \E i \in DOMAIN t.args : DeepRejected(t.args[i])

\* the text is an error of the schema compiler
CompilerRejection(text) ==
    \/ Contains(text, "Cannot generate a JsonSchema for ")
    \/ Contains(text, "Unable to generate pydantic-core schema for ")

\* compile failed on n with a compiler rejection of the slot named by label
RejectedWithContext(n, label, slot) ==
    /\ FailedOn(n)
    /\ CompilerRejection(LastText)
    /\ Contains(LastText, CapName)
    /\ Contains(LastText, label)
    /\ slot # "" => Contains(LastText, slot)
    /\ Contains(LastText, "' on function '")
    /\ ~ENABLED Next

C14_RejectionHasContext ==
    /\ \A i \in DOMAIN log :
          CompilerRejection(log[i].text) =>
              /\ i = Len(log)
              /\ log[i].level = "CRITICAL"
              /\ \/ RejectedWithContext(examined[Len(examined)], "', parameter '", "")
                 \/ RejectedWithContext(examined[Len(examined)], "', return annotation '", "")
    /\ \A i \in DOMAIN examined :
          LET n == examined[i]
              m == capability[n] IN
          /\ (/\ m.mark = BASE_ATTR /\ m.binding = "function" /\ Len(m.params) = 2
              /\ m.params[2].annotation # Empty /\ DeepRejected(m.params[2].annotation))
                => RejectedWithContext(n, "', parameter '", m.params[2].name)
          /\ (m.binding = "function" /\ Len(m.params) = 1 /\ DeepRejected(m.ret))
                => RejectedWithContext(n, "', return annotation '", "")

\* a status accessor returning a tuple with an object member was rejected
\* with the context of the accessor
C14_Witness ==
    \E n \in StatusAccessors :
        /\ capability[n].ret = T("Tuple", "", <<Int, Object>>)
        /\ RejectedWithContext(n, "', return annotation '", "")

(***************************************************************************)
(* C15. A mapping type is accepted only if its key type is str and its     *)
(* value type is declared and not any/object: a key type other than str is *)
(* rejected with "key type needs to be 'str'", naming the parameter; a str *)
(* key with an any/object value is rejected with another message, about    *)
(* the value type; when both are violated the key cause is reported.       *)
(***************************************************************************)
\* (the mappings are those pydantic can build a core schema for: a value
\* class it cannot parse is reported by TypeAdapter before any schema is
\* generated)
KeyCause == "key type needs to be 'str'"
ValueCause == "value type cannot be Any/object"

\* the slot of n under test is a parameter
ParameterUnderTest(n) == Len(capability[n].params) = 2

KindLabel(kind) ==
    CASE kind = "BaseModel" -> "pydantic.BaseModel"
      [] kind = "dataclass" -> "dataclass"
      [] kind = "TypedDict" -> "TypedDict"
      [] kind = "NamedTuple" -> "NamedTuple"

EmptyRecord(t) == t.tag \in RecordKinds /\ t.args = <<>>

C16_EmptyRecordRejected ==
    \A n \in ExaminedEntryPoints :
        \A i \in DOMAIN TypeUnderTest(capability[n]) :
            LET t == TypeUnderTest(capability[n])[i] IN
            EmptyRecord(t) =>
                /\ FailedOn(n)
                /\ n \notin DOMAIN function_map
                /\ CompilerRejection(LastText)
                /\ Contains(LastText, KindLabel(t.tag))
                /\ Contains(LastText, t.name)

\* a TypedDict without fields, used as a parameter type, was rejected with
\* its kind and its name in the message
C16_Witness ==
    \E n \in ExaminedEntryPoints :
        /\ TypeUnderTest(capability[n]) = <<T("TypedDict", NameAt("TypedDict", 1), <<>>)>>
        /\ ParameterUnderTest(n)
        /\ FailedOn(n)
        /\ Contains(LastText, "TypedDict")
        /\ Contains(LastText, NameAt("TypedDict", 1))

(***************************************************************************)
(* C17. A status accessor is accepted only if its signature is exactly the *)
(* implicit receiver and a declared return annotation: with any extra      *)
(* parameter, or with no parameter at all, it is rejected with "should     *)
(* have no parameters other than 'self'"; without return annotation it is  *)
(* rejected with "should have a valid return annotation".                  *)
(***************************************************************************)
\* the status accessor that was examined, if any
ExaminedStatus == {examined[i] : i \in DOMAIN examined} \cap StatusAccessors

\* the def has an implicit receiver and nothing else
OnlyReceiver(m) == m.binding \in {"function", "classmethod"} /\ Len(m.params) = 1

\* the parameters of the def are plain positional ones
PlainParams(m) ==
    \A i \in DOMAIN m.params :
        m.params[i].kind = "POSITIONAL_OR_KEYWORD" /\ ~m.params[i].default

C17_StatusSignature ==
    \A n \in ExaminedStatus :
        /\ (pc = "done" /\ PlainParams(capability[n]) /\ capability[n].ret = Int)
              => OnlyReceiver(capability[n])
        /\ pc = "done" => capability[n].ret # Empty
        /\ (/\ Len(capability[n].params) # 1
            /\ PlainParams(capability[n])
            /\ capability[n].ret = Int) =>
              FailedOn(n) /\ Contains(LastText, "should have no parameters other than 'self'")
        /\ (OnlyReceiver(capability[n]) /\ capability[n].binding = "function"
               /\ capability[n].ret = Empty) =>
              FailedOn(n) /\ Contains(LastText, "should have a valid return annotation.")

(***************************************************************************)
(* C18. The return type of the status accessor is compiled like the return *)
(* type of an entry point, into the same Schema Table: same acceptance or  *)
(* rejection, same fragment, same additions to the table. A status         *)
(* accessor returning a named record with one field leaves exactly one     *)
(* named definition for that record in the returned table.                 *)
(***************************************************************************)
\* the return annotation of the status accessor _status_fn_schema is about
\* to compile: there is one accessor, "def s(self) -> T"
StatusReturn ==
    IF /\ pc = "status"
       /\ Len(get_functions(capability, BASE_STATUS_ATTR)) = 1
       /\ capability[get_functions(capability, BASE_STATUS_ATTR)[1]].params = <<Self>>
       /\ capability[get_functions(capability, BASE_STATUS_ATTR)[1]].ret # Empty
    THEN <<capability[get_functions(capability, BASE_STATUS_ATTR)[1]].ret>>
    ELSE <<>>

\* the step leaves what the response block of an entry point of the same
\* name and return annotation would leave, given the same schemas
LikeEntryReturn(e) ==
    /\ e.died = <<>> <=> pc' = "done"
    /\ schemas' = e.schemas
    /\ log' = log \o e.died
    /\ pc' = "done" =>
          /\ result'[1].status.schema = e.payload
          /\ result'[1].status.adapter = e.adapter
          /\ result'[1].schemas = e.schemas

\* the claim as stated: for every return annotation
C18_StatusLikeEveryEntryReturn ==
    [][\A i \in DOMAIN StatusReturn :
          LikeEntryReturn(response_block(get_functions(capability, BASE_STATUS_ATTR)[1],
                                         StatusReturn[i], schemas))]_vars

\* a status accessor returning the record Model1 with one int field, beside
\* entry points over int: the returned table has the one definition Model1
OneFieldRecord == T("BaseModel", NameAt("BaseModel", 1), <<Int>>)

OneDefinitionForStatusRecord ==
    (/\ Returned
     /\ \A n \in AnnotatedEntryPoints : capability[n] = ValidEntry
     /\ \E n \in StatusAccessors : capability[n] = M(BASE_STATUS_ATTR, "function", <<Self>>,
                                                      OneFieldRecord))
        => /\ DOMAIN result[1].schemas = {OneFieldRecord.name}
           /\ result[1].schemas[OneFieldRecord.name]
                 = [NoFrag EXCEPT !.type = "object", !.title = OneFieldRecord.name,
                                  !.properties = <<[NoFrag EXCEPT !.type = "integer"]>>]
           /\ result[1].status.schema = <<RefTo(OneFieldRecord.name)>>

\* the claim as amended: for every return annotation but None, which an entry
\* point does not compile (no adapter, no payload) while the status accessor
\* compiles it into a null fragment with an adapter
C18_StatusLikeEntryReturn ==
    /\ []OneDefinitionForStatusRecord
    /\ [][\A i \in DOMAIN StatusReturn :
             IF StatusReturn[i] # NoneType
             THEN LikeEntryReturn(response_block(get_functions(capability, BASE_STATUS_ATTR)[1],
                                                 StatusReturn[i], schemas))
             ELSE /\ pc' = "done"
                  /\ schemas' = schemas
                  /\ result'[1].status.schema = <<[NoFrag EXCEPT !.type = "null"]>>
                  /\ result'[1].status.adapter = AdapterOf(NoneType)]_vars

\* compile returned for a status accessor returning the one-field record
C18_Witness ==
    /\ Returned
    /\ \E n \in StatusAccessors : capability[n].ret = OneFieldRecord
    /\ DOMAIN result[1].schemas = {OneFieldRecord.name}
    /\ result[1].status.schema = <<RefTo(OneFieldRecord.name)>>

(***************************************************************************)
(* C20. The Schema Table is append-only during a compile: a name that is   *)
(* bound to a fragment is never rebound or removed by what is processed    *)
(* later, so of two distinct types with one name the first registered      *)
(* wins.                                                                   *)
(***************************************************************************)
\* the claim as stated: no step changes or removes a binding
C20_AppendOnly ==
    [][\A n \in DOMAIN schemas : n \in DOMAIN schemas' /\ schemas'[n] = schemas[n]]_vars

\* the type a method has compiled last when it passed: its return type, or
\* its request parameter's when it returns None
LastCompiled(m) ==
    IF m.ret \notin {Empty, NoneType} THEN <<m.ret>>
    ELSE IF Len(signature(m)) = 2 /\ signature(m)[2].annotation \notin {Empty, NoneType}
    THEN <<signature(m)[2].annotation>>
    ELSE <<>>

\* a BaseModel with one int or str field, and the fragment filed for it
PlainRecord(t) == t.tag = "BaseModel" /\ Len(t.args) = 1 /\ t.args[1] \in {Int, Str}
RecordFragment(t) ==
    [NoFrag EXCEPT !.type = "object", !.title = t.name,
                   !.properties = <<[NoFrag EXCEPT !.type = IF t.args[1] = Int
                                                           THEN "integer" ELSE "string"]>>]

\* the step examined a method that passed
Passed == Len(examined') = Len(examined) + 1 /\ pc' \in {"loop", "done"}

\* the claim as amended: no step removes a name; a type registered under a
\* name that is bound already replaces the fragment, the last one wins
C20_NamesKeptLastWins ==
    [][/\ DOMAIN schemas \subseteq DOMAIN schemas'
       /\ Passed =>
             \A i \in DOMAIN LastCompiled(capability[examined'[Len(examined')]]) :
                 LET t == LastCompiled(capability[examined'[Len(examined')]])[i] IN
                 PlainRecord(t) =>
                     /\ t.name \in DOMAIN schemas'
                     /\ schemas'[t.name] = RecordFragment(t)]_vars

\* two entry points registered distinct records under one name; the table
\* holds the fragment of the second
C20_Witness ==
    /\ Len(examined) >= 2
    /\ capability[examined[1]] = RecordEntry
    /\ capability[examined[2]] = RecordOther
    /\ pc # "died"
    /\ schemas[NameAt("BaseModel", 1)] = RecordFragment(RecordOther.ret)

(***************************************************************************)
(* Vocabulary of the annotation step.                                      *)
(***************************************************************************)
\* the annotation has been applied and returned a callable
Annotated == wrapper # <<>> /\ wrapper[1].callable # <<>>
\* the callable the annotation returned
AnnotatedCallable == wrapper[1].callable[1]
\* the value a keyword of intersect_message stands for: the one written, else
\* the documented default
Configured(name, default) ==
    IF name \in DOMAIN decorator.given THEN decorator.given[name] ELSE default

(***************************************************************************)
(* C21. Annotating a callable with intersect_message or intersect_status   *)
(* does not change what calling it does: for every argument list the       *)
(* annotated callable returns the same result or raises the same exception *)
(* as the original. The configured metadata (content types, data-transfer  *)
(* mode, strict flag, ignore keys; json, json, in-band, false and the      *)
(* empty set where none is written) is attached to the returned callable.  *)
(***************************************************************************)
C21_SameBehaviourAndMetadata ==
    /\ invoked # <<>> => invoked[1].outcome = apply(func, invoked[1].call)
    /\ (Annotated /\ decorator.name = BASE_STATUS_ATTR) =>
          AnnotatedCallable.mark = BASE_STATUS_ATTR
    /\ (Annotated /\ decorator.name = BASE_ATTR) =>
          /\ AnnotatedCallable.mark = BASE_ATTR
          /\ AnnotatedCallable.request_content =
                IntersectMimeType[Configured("request_content_type", "JSON")]
          /\ AnnotatedCallable.response_content =
                IntersectMimeType[Configured("response_content_type", "JSON")]
          /\ AnnotatedCallable.response_data =
                IntersectDataHandler[Configured("response_data_transfer_handler", "MESSAGE")]
          /\ AnnotatedCallable.strict_validation =
                Configured("strict_request_validation", FALSE)
          /\ AnnotatedCallable.shutdown_keys =
                IF Configured("ignore_keys", <<>>) = <<>> THEN {}
                ELSE Configured("ignore_keys", <<>>)[1]

\* an entry point annotated with a request content type of its own was
\* called with a keyword argument and returned what the def returns
C21_Witness ==
    /\ Annotated
    /\ decorator.name = BASE_ATTR
    /\ "request_content_type" \in DOMAIN decorator.given
    /\ "response_content_type" \notin DOMAIN decorator.given
    /\ invoked # <<>>
    /\ DOMAIN invoked[1].call.kwargs # {}
    /\ invoked[1].outcome.kind = "return"
    /\ invoked[1].outcome = apply(func, invoked[1].call)

JustScanned(n) ==
    /\ n \in AnnotatedEntryPoints
    /\ examined # <<>>
    /\ examined[Len(examined)] = n
    /\ pc \in {"loop", "died"}
    /\ Failed => n \notin DOMAIN function_map

\* the schema compiler rejects the type
Rejected(t) == ~adapt_and_merge(<<>>, t).ok

\* the step that fails first, in the order the steps are given
RECURSIVE FirstFailing(_)
FirstFailing(steps) ==
    IF steps = <<>> THEN "none"
    ELSE IF Head(steps).fails THEN Head(steps).step
    ELSE FirstFailing(Tail(steps))

Step(step, fails) == [step |-> step, fails |-> fails]

\* the steps on the introspected parameters sig and the return annotation
CountStep(sig) == Step("count", Len(sig) \notin {1, 2})
ParameterAnnotationStep(sig) ==
    Step("parameter annotation", Len(sig) = 2 /\ sig[2].annotation = Empty)
ParameterSchemaStep(sig) ==
    Step("parameter schema",
         /\ Len(sig) = 2
         /\ sig[2].annotation \notin {Empty, NoneType}
         /\ Rejected(sig[2].annotation))
ReturnAnnotationStep(ret) == Step("return annotation", ret = Empty)
ReturnSchemaStep(ret) == Step("return schema", ret \notin {Empty, NoneType} /\ Rejected(ret))

\* the violation reported for entry point n is the one of the step
ReportedStep(n, step) ==
    IF step = "none" THEN ~Failed /\ n \in DOMAIN function_map
    ELSE /\ Failed
         /\ Len(Violations) = 1
         /\ n \notin DOMAIN function_map
         /\ Contains(LastText, n)
         /\ Contains(LastText,
               CASE step = "count" -> "zero or one additional parameters"
                 [] step = "parameter annotation" -> "' type annotation on function '"
                 [] step = "parameter schema" -> "' type annotation '"
                 [] step = "return annotation" -> "', return type annotation on function '"
                 [] step = "return schema" -> "', return annotation '")

Named(t) == t.tag \in RecordKinds \cup {"Enum", "TypeAliasType"}

\* a named type whose fragment is a definition of its own wherever the
\* type occurs: all but the named tuples, an inlined array inside a type
Definition(t) == Named(t) /\ t.tag # "NamedTuple"

\* the names of the definitions that occur in t, t included
RECURSIVE DefinitionNames(_)
DefinitionNames(t) ==
    (IF Definition(t) THEN {t.name} ELSE {})
    \cup UNION {DefinitionNames(t.args[i]) : i \in DOMAIN t.args}

\* the names an annotation slot brings: none when it is None, otherwise
\* the name of the annotated type and the definitions of the types in it
SlotNames(t) ==
    IF t \in {NoneType, Empty} THEN {}
    ELSE (IF Named(t) THEN {t.name} ELSE {})
         \cup UNION {DefinitionNames(t.args[i]) : i \in DOMAIN t.args}

\* the "type" key of the fragment compiled for a type that is not an alias
FragmentType(t) ==
    CASE t.tag \in {"BaseModel", "dataclass", "TypedDict", "Dict"} -> "object"
      [] t.tag \in {"List", "Set", "FrozenSet", "Generator", "Tuple", "TupleVar",
                    "NamedTuple"} -> "array"
      [] t.tag = "int" -> "integer"
      [] t.tag \in {"str", "Enum"} -> "string"
      [] t.tag = "Literal" -> ""
      [] t.tag = "Field" -> "integer"

\* the table: named records other than mappings, named tuples and
\* enumerations are promoted
PromotedByShape(t) == t.tag \in {"BaseModel", "dataclass", "TypedDict", "NamedTuple", "Enum"}

\* payload (of a channel or of the status) follows the table for type t
FollowsTable(t, payload) ==
    /\ payload # <<>>
    /\ IF PromotedByShape(t)
       THEN /\ payload[1] = RefTo(t.name)
            /\ t.name \in DOMAIN schemas
            /\ ~IsRef(schemas[t.name])
            /\ schemas[t.name].type = FragmentType(t)
       ELSE /\ ~IsRef(payload[1])
            /\ payload[1].type = FragmentType(t)
            /\ (t.tag = "Literal") = (payload[1].marker = "const")

\* entry point n is the only one examined so far and it passed
FirstPassed(n) == examined = <<n>> /\ n \in DOMAIN function_map

\* the annotation of the explicit parameter of entry point n (None without one)
ParameterType(n) ==
    IF Len(signature(capability[n])) = 2 THEN signature(capability[n])[2].annotation
    ELSE NoneType

(***************************************************************************)
(* C24. For a type that is not an alias the schema compiler decides by the *)
(* fragment: an object fragment is inlined for a plain mapping and         *)
(* otherwise promoted to the Schema Table under the type's name and        *)
(* replaced by a reference; an array fragment is promoted only for a named *)
(* fixed-field tuple; a fragment with an enum or const marker only for a   *)
(* true enumeration; every other fragment is inlined. An inlined fragment  *)
(* adds no entry of its own: the Schema Table holds the annotated named    *)
(* types and the named types defined inside the annotations (a named tuple *)
(* inside another type is an inlined array), and nothing else.             *)
(***************************************************************************)
C24_PromotionTable ==
    \A n \in DOMAIN channels :
        FirstPassed(n) =>
            /\ ParameterType(n).tag \notin {"None", "TypeAliasType"} =>
                  FollowsTable(ParameterType(n), channels[n].subscribe.payload)
            /\ capability[n].ret.tag \notin {"None", "TypeAliasType"} =>
                  FollowsTable(capability[n].ret, channels[n].publish.payload)
            /\ DOMAIN schemas = SlotNames(capability[n].ret) \cup SlotNames(ParameterType(n))

\* a mapping from str to an enumeration as parameter type: the object
\* fragment is inlined, the Schema Table holds the enumeration alone
C24_Witness ==
    \E n \in DOMAIN channels :
        /\ FirstPassed(n)
        /\ ParameterType(n).tag = "Dict"
        /\ ParameterType(n).args[2].tag = "Enum"
        /\ FollowsTable(ParameterType(n), channels[n].subscribe.payload)
        /\ channels[n].subscribe.payload[1].type = "object"
        /\ DOMAIN schemas = {ParameterType(n).args[2].name}

(***************************************************************************)
(* C25. A type that is a named alias is always registered in the Schema    *)
(* Table under the alias's own name and replaced in the channel payload by *)
(* a reference to that name, whatever the shape of the underlying type     *)
(* (object, array, enum or primitive): the alias rule comes before every   *)
(* rule on the shape.                                                      *)
(***************************************************************************)
\* the Schema Table holds the alias t under its own name, with what was
\* compiled for the type it stands for, and payload refers to it
AliasRegistered(t, payload) ==
    /\ payload = <<RefTo(t.name)>>
    /\ t.name \in DOMAIN schemas
    /\ IF Definition(t.args[1])
       THEN schemas[t.name] = RefTo(t.args[1].name) /\ t.args[1].name \in DOMAIN schemas
       ELSE ~IsRef(schemas[t.name]) /\ schemas[t.name].type = FragmentType(t.args[1])

C25_AliasAlwaysPromoted ==
    \A n \in DOMAIN channels :
        FirstPassed(n) =>
            /\ ParameterType(n).tag = "TypeAliasType" =>
                  AliasRegistered(ParameterType(n), channels[n].subscribe.payload)
            /\ capability[n].ret.tag = "TypeAliasType" =>
                  AliasRegistered(capability[n].ret, channels[n].publish.payload)

\* an alias of int, whose fragment the rules on the shape inline, is
\* registered under the alias name
C25_Witness ==
    \E n \in DOMAIN channels :
        /\ FirstPassed(n)
        /\ ParameterType(n).tag = "TypeAliasType"
        /\ ParameterType(n).args[1] = Int
        /\ AliasRegistered(ParameterType(n), channels[n].subscribe.payload)
        /\ schemas[ParameterType(n).name].type = "integer"

(***************************************************************************)
(* C26. A capability that uses only primitive types compiles to an empty   *)
(* Schema Table, a Channel Map with exactly one channel per entry point,   *)
(* keyed by the method name, and a Dispatch Table with exactly one entry   *)
(* per entry point.                                                        *)
(***************************************************************************)
\* a primitive type, or no payload at all
PrimitiveSlot(t) == t \in {Int, Str, NoneType}

PrimitiveEntryPoints ==
    \A n \in AnnotatedEntryPoints :
        PrimitiveSlot(ParameterType(n)) /\ PrimitiveSlot(capability[n].ret)

PrimitiveStatus == \A n \in StatusAccessors : PrimitiveSlot(capability[n].ret)

\* the artifacts of a compile over primitives
PrimitiveArtifacts ==
    /\ DOMAIN result[1].schemas = {}
    /\ DOMAIN result[1].channels = AnnotatedEntryPoints
    /\ DOMAIN result[1].function_map = AnnotatedEntryPoints
    /\ \A n \in AnnotatedEntryPoints : result[1].function_map[n].method = n

\* C26 as claimed: the entry points use only primitive types
C26_PrimitiveEntryPoints ==
    (Returned /\ PrimitiveEntryPoints) => PrimitiveArtifacts

\* C26 with the status accessor: the entry points and the status accessor,
\* if there is one, use only primitive types
C26_PrimitiveCapability ==
    (Returned /\ PrimitiveEntryPoints /\ PrimitiveStatus) => PrimitiveArtifacts

\* two entry points from int to int and a status accessor returning int
C26_Witness ==
    /\ Returned
    /\ Cardinality(AnnotatedEntryPoints) = 2
    /\ \A n \in AnnotatedEntryPoints : ParameterType(n) = Int /\ capability[n].ret = Int
    /\ StatusAccessors # {}
    /\ PrimitiveStatus
    /\ PrimitiveArtifacts

(***************************************************************************)
(* C27. An entry point whose parameter type declares a default value that  *)
(* does not validate against the type's own schema, on the type itself or  *)
(* on a nested field, or a default that cannot be serialized, makes        *)
(* compile fail: no capability with such a default yields artifacts.       *)
(***************************************************************************)
\* t declares, on itself or on a field, a default that does not validate or
\* cannot be serialized
RECURSIVE BadDefault(_)
BadDefault(t) ==
    \/ t.tag = "Field" /\ t.name \in {"mismatch", "unserializable"}
    \/ \E i \in DOMAIN t.args : BadDefault(t.args[i])

C27_BadDefaultRejected ==
    \A n \in AnnotatedEntryPoints :
        (/\ capability[n].binding = "function"
         /\ HasReceiver(capability[n])
         /\ PlainParams(capability[n])
         /\ capability[n].ret = Int
         /\ BadDefault(ParameterType(n))) =>
            /\ n \notin DOMAIN function_map
            /\ ~Returned

(***************************************************************************)
(* C28. In every Channel Map entry the content type and the schema payload *)
(* of a message descriptor describe the same direction: the descriptor     *)
(* that carries the request schema payload carries the entry point's       *)
(* request content type, the one that carries the response schema payload  *)
(* its response content type.                                              *)
(***************************************************************************)
\* the payload compiled for an annotation slot: none for None
SlotPayload(t) == IF t = NoneType THEN <<>> ELSE <<adapt_and_merge(<<>>, t).payload>>

\* descriptor d of entry point n carries the request / the response payload
CarriesRequest(n, d) ==
    d.payload # <<>> /\ d.payload = SlotPayload(ParameterType(n))
CarriesResponse(n, d) ==
    d.payload # <<>> /\ d.payload = SlotPayload(capability[n].ret)

C28_ContentTypeFollowsPayload ==
    \A n \in DOMAIN function_map :
        (/\ n \in DOMAIN channels
         /\ capability[n].binding = "function"
         /\ PlainParams(capability[n])
         /\ SlotPayload(ParameterType(n)) # SlotPayload(capability[n].ret)) =>
            /\ CarriesRequest(n, channels[n].publish) =>
                  channels[n].publish.contentType = capability[n].request_content
            /\ CarriesRequest(n, channels[n].subscribe) =>
                  channels[n].subscribe.contentType = capability[n].request_content
            /\ CarriesResponse(n, channels[n].publish) =>
                  channels[n].publish.contentType = capability[n].response_content
            /\ CarriesResponse(n, channels[n].subscribe) =>
                  channels[n].subscribe.contentType = capability[n].response_content

(***************************************************************************)
(* C29. Entry points are examined one at a time in ascending order of      *)
(* method name, the zero-entry-point check runs after the last entry       *)
(* point, and the status accessor is examined only after that: when        *)
(* several violations coexist the one reported belongs to the entry point  *)
(* with the smallest name, and any entry-point violation or the            *)
(* zero-entry-point error comes before every status-accessor violation.    *)
(***************************************************************************)
\* the place of a name in the ascending order of the names
Place(n) == CHOOSE i \in DOMAIN NamePool : NamePool[i] = n

\* entry point n violates one of the checks on entry points
ViolatingEntryPoint(n) ==
    FirstFailing(<<CountStep(signature(capability[n])),
                   ParameterAnnotationStep(signature(capability[n])),
                   ParameterSchemaStep(signature(capability[n])),
                   ReturnAnnotationStep(capability[n].ret),
                   ReturnSchemaStep(capability[n].ret)>>) # "none"

ViolatingEntryPoints == {n \in AnnotatedEntryPoints : ViolatingEntryPoint(n)}

\* the violating entry point with the smallest name
SmallestViolating ==
    CHOOSE n \in ViolatingEntryPoints : \A o \in ViolatingEntryPoints : Place(n) <= Place(o)

\* the status accessors violate a check on status accessors
ViolatingStatus ==
    \/ Cardinality(StatusAccessors) > 1
    \/ \E n \in StatusAccessors :
          \/ Len(signature(capability[n])) # 1
          \/ capability[n].ret = Empty
          \/ Rejected(capability[n].ret)

\* the names examined so far are in ascending order, entry points first
ExaminedInOrder ==
    /\ \A i, j \in DOMAIN examined :
          (i < j /\ examined[j] \in AnnotatedEntryPoints) =>
             /\ examined[i] \in AnnotatedEntryPoints
             /\ Place(examined[i]) < Place(examined[j])
    /\ \A i \in DOMAIN examined :
          examined[i] \in StatusAccessors =>
             /\ i = Len(examined)
             /\ AnnotatedEntryPoints # {}
             /\ DOMAIN function_map = AnnotatedEntryPoints
             /\ Len(examined) = Cardinality(AnnotatedEntryPoints) + 1

C29_SmallestNameFirst ==
    /\ ExaminedInOrder
    /\ Failed =>
          /\ Len(Violations) = 1
          /\ IF ViolatingEntryPoints # {}
             THEN /\ FailedOn(SmallestViolating)
                  /\ \A i \in DOMAIN examined : Place(examined[i]) <= Place(SmallestViolating)
             ELSE IF AnnotatedEntryPoints = {}
             THEN examined = <<>> /\ Contains(LastText, "No entrypoints detected")
             ELSE ViolatingStatus /\ StatusStageRun
    /\ (pc \in {"status", "done"}) => ViolatingEntryPoints = {} /\ AnnotatedEntryPoints # {}

\* two violating entry points and a violating status accessor: the entry
\* point with the smaller name is the one reported
C29_Witness ==
    /\ Failed
    /\ Cardinality(ViolatingEntryPoints) >= 2
    /\ ViolatingStatus
    /\ FailedOn(SmallestViolating)
    /\ examined = <<SmallestViolating>>

(***************************************************************************)
(* C30. Referential integrity: after every call of the schema compiler,    *)
(* and in the artifacts of a successful compile, every reference           *)
(* '#/components/schemas/NAME' in a Channel Map payload, in the status     *)
(* schema or inside a Schema Table entry names a key of the Schema Table.  *)
(***************************************************************************)
\* the fragments of a sequence of fragments
Fragments(frags) == {frags[i] : i \in DOMAIN frags}

\* the references that occur in a fragment, at any depth
RECURSIVE References(_)
References(frag) ==
    (IF IsRef(frag) THEN {frag.ref} ELSE {})
    \cup UNION {References(f) :
                   f \in Fragments(frag.properties) \cup Fragments(frag.items)
                         \cup Fragments(frag.additional)}

\* every reference of the fragments follows the template and names a key of sch
Resolved(sch, frags) ==
    \A f \in frags : \A ref \in References(f) :
        /\ ref[1] = "#/components/schemas/"
        /\ ref[2] \in DOMAIN sch

\* sch is closed and resolves the references of the payloads
Integral(sch, payloads) ==
    Resolved(sch, payloads \cup {sch[k] : k \in DOMAIN sch})

\* the payloads of a Channel Map
ChannelPayloads(chs) ==
    UNION {Fragments(chs[n].publish.payload) \cup Fragments(chs[n].subscribe.payload) :
              n \in DOMAIN chs}

\* the request block of the entry point that is examined next, on its own:
\* the state between the two calls of one iteration
NextRequestIntegral ==
    (pc = "loop" /\ idx <= Len(get_functions(capability, BASE_ATTR))) =>
        \A name \in {get_functions(capability, BASE_ATTR)[idx]} :
            ~parameter_count_rejected(signature(capability[name])) =>
                \A r \in {request_block(name, signature(capability[name]), schemas)} :
                    Integral(r.schemas, ChannelPayloads(channels) \cup Fragments(r.payload))

C30_ReferentialIntegrity ==
    /\ Integral(schemas, ChannelPayloads(channels))
    /\ NextRequestIntegral
    /\ Returned =>
          Integral(result[1].schemas,
                   ChannelPayloads(result[1].channels) \cup Fragments(result[1].status.schema))

\* a compile returned a channel whose payload refers to the Schema Table and
\* a Schema Table entry that refers to another one
C30_Witness ==
    /\ Returned
    /\ \E f \in ChannelPayloads(result[1].channels) : References(f) # {}
    /\ \E k \in DOMAIN result[1].schemas : References(result[1].schemas[k]) # {}
    /\ Integral(result[1].schemas,
                ChannelPayloads(result[1].channels) \cup Fragments(result[1].status.schema))
====
